---- MODULE Spec2Model ----
(***************************************************************************)
(* Model of the real-time audio core of PedalBoard: the engine             *)
(* (RealTimeAudioProcessor), the two session classes                       *)
(* (LiveRecordingSession, FilePlaybackSession) of src/audio_engine.py and  *)
(* the session / download handlers of RealTimeAudioApp in src/app.py.      *)
(*                                                                         *)
(* Threads: one control thread that runs the public operations step by     *)
(* step, and one driver callback per session stream.                       *)
(* Amplitudes are in thousandths of full scale (1000 = 1.0).               *)
(***************************************************************************)
EXTENDS Integers, Sequences, FiniteSets, TLC

\* ---- bounds of the model ------------------------------------------------
MaxChunks == 1     \* a live callback processes a block while fewer are recorded
MaxFrames == 2     \* largest frame count the driver requests
MaxData   == 2     \* longest source file, in frames
MaxCards  == 2     \* most effect cards the user puts in the chain
MaxTimers == 1     \* most monitor_playback timers pending at once

\* ---- program constants --------------------------------------------------
EFFECT_MAP ==
  {"Chorus", "Distortion", "Phaser", "Clipping", "Compressor", "Gain",
   "Limiter", "HighpassFilter", "LowpassFilter", "Delay", "Reverb",
   "PitchShift", "Bitcrush"}

\* EFFECTS: the declared range and default of the first parameter of a kind:
\* Gain gain_db in dB, Delay delay_seconds in tenths of a second
EFFECTS ==
  [Gain  |-> [min |-> -60, max |-> 60, default |-> 0],
   Delay |-> [min |-> 0, max |-> 20, default |-> 5]]

\* Limiter(threshold_db=-1.0): 10^(-1/20) = 0.891 of full scale
SafetyThreshold == 891

\* RealTimeAudioProcessor(samplerate=44100)
Samplerate == 44100

\* ---- inputs -------------------------------------------------------------
\* the effect_configs lists a caller hands to update_effects ("Wah" is not in
\* EFFECT_MAP)
Cfg(name) == [name |-> name, parameters |-> 0]
ConfigLists ==
  {<<>>, <<Cfg("Gain")>>, <<Cfg("Gain"), Cfg("Delay")>>, <<Cfg("Delay"), Cfg("Gain")>>,
   <<Cfg("Wah")>>, <<Cfg("Gain"), Cfg("Wah")>>, <<Cfg("Wah"), Cfg("Gain")>>}
\* the lists handed to update_effects when only the build is examined: values
\* of gain_db inside and outside its declared range, and an unknown kind
BuildConfigs ==
  [name : {"Gain"}, parameters : {-70, 0, 6, 70}]
    \cup [name : {"Delay"}, parameters : {0, 5}]
BuildLists ==
  {<<>>, <<Cfg("Wah")>>} \cup {<<c>> : c \in BuildConfigs}
    \cup {<<c, d>> : c \in BuildConfigs, d \in BuildConfigs}
\* peak of a block delivered by the input device, and of a block returned by
\* the external effects
InputPeaks  == {2000}
\* peak of the source file of a playback session
FilePeaks   == {1500}
\* channel count of the source file of a playback session: stereo
FileChannels == {2}
\* channel counts of the files load_file is given when only loading is
\* examined: mono, stereo and 5.1
LoadChannels == {1, 2, 6}
\* peaks of the files load_file is given when only loading is examined, on
\* both sides of 0.8 and of 1.0
LoadPeaks   == {0, 300, 500, 799, 800, 801, 900, 999, 1000, 1001, 1200, 1500, 2000}
Sessions    == {"live", "playback"}

Min(a, b) == IF a < b THEN a ELSE b

\* an audio block: frame count, peak amplitude, whether the safety limiter ran
Block(n, p, lim) == [frames |-> n, peak |-> p, limited |-> lim]
Silence(n) == Block(n, 0, FALSE)
NoBlock == Block(0, 0, FALSE)

VARIABLES
  board,            \* processor.board: the current chain
  installed,        \* the chain asked for by the last update_effects that returned normally
  lock,             \* processor.lock: "free", "ctl" or "rt"
  is_active,        \* processor.is_active
  recorded_chunks,  \* processor.recorded_chunks
  board_mem,        \* internal memory of the stages of board: "initial" or "carried"
  limiter_mem,      \* internal memory of safety_limiter: "initial" or "carried"
  owner,            \* the session whose start() ran last ("none" before the first)
  fresh,            \* no callback of the owner has been invoked yet
  recorded_by,      \* for each block of recorded_chunks, the session that appended
                    \* it, or "old" when a later start() found it in the buffer
  is_running,       \* session.is_running
  stream,           \* session.stream: "None", "open", "active", "closed", "aborted"
  audio_data,       \* playback session: the loaded buffer (length and peak)
  current_frame,    \* playback session: the cursor
  phase,            \* life cycle of the session object: "none", "idle", "started", "stopped"
  cb,               \* the callback invocation in flight on the real-time thread
  outdata,          \* the output block of the last finished callback invocation
  requested,        \* the frame count the driver asked of the last invocation
  ctlPc,            \* position of the control thread
  ctlStack,         \* return positions of the control thread
  ctlSess,          \* the session the control thread operates on
  effect_configs,   \* argument of update_effects
  ue_i,             \* loop position in effect_configs
  new_board,        \* local new_board of update_effects
  entryBoard,       \* the chain at the time update_effects took the lock
  ctlResult,        \* outcome of the last operation of the control thread
  saved,            \* content of the file written by the last save_recording
  app_is_active,    \* RealTimeAudioApp.is_active
  live_session,     \* app.live_session is not None
  playback_session, \* app.playback_session is not None
  mode,             \* mode_selector.get()
  input_file,       \* app.input_file is not None
  controls,         \* state of mode_selector and change_file_btn
  download_btn,     \* download_btn is packed
  dialog,           \* a DownloadDialog is open
  timers,           \* pending after(100, monitor_playback) calls
  effect_chain      \* app.effect_chain: the effect cards, in order

memVars     == <<board_mem, limiter_mem>>
ghostVars   == <<owner, fresh, recorded_by>>
engineVars  == <<board, installed, lock, is_active, recorded_chunks, memVars, ghostVars>>
sessionVars == <<is_running, stream, audio_data, current_frame, phase>>
rtVars      == <<cb, outdata, requested>>
ueVars      == <<effect_configs, ue_i, new_board, entryBoard>>
ctlVars     == <<ctlPc, ctlStack, ctlSess, ctlResult>>
appVars     == <<app_is_active, live_session, playback_session, mode, input_file,
                 controls, download_btn, dialog, timers, effect_chain>>
vars == <<engineVars, sessionVars, rtVars, ueVars, ctlVars, saved, appVars>>

\* ---- values -------------------------------------------------------------
\* audio_data is None; a loaded buffer has its length, its peak, the peak the
\* data had when it was read from the file, and its number of channels
NoData == [len |-> -1, peak |-> 0, file_peak |-> 0, channels |-> 0]
\* the outcome of save_recording for the file name it was given: no call, a
\* call that wrote nothing, or the written samples and sample rate
NoFile == [status |-> "none", audio |-> <<>>, samplerate |-> 0]
NotWritten == [status |-> "not_written", audio |-> <<>>, samplerate |-> 0]
Written(audio, samplerate) ==
  [status |-> "written", audio |-> audio, samplerate |-> samplerate]
IdleCb == [pc |-> "idle", sess |-> "live", frames |-> 0, end_frame |-> 0,
           blk |-> NoBlock, caught |-> FALSE, board_in |-> "none", limiter_in |-> "none",
           path |-> <<>>]

\* the source files a playback session may be given
Files ==
  [readable : BOOLEAN, len : 0..MaxData, peak : FilePeaks, channels : FileChannels]
LoadFiles ==
  [readable : BOOLEAN, len : 0..MaxData, peak : LoadPeaks, channels : LoadChannels]

\* ---- the control thread: calls, returns, exceptions ---------------------
\* the control thread starts an operation at position pc
Call(pc) ==
  /\ ctlPc = "idle"
  /\ ctlPc' = pc
  /\ ctlResult' = "None"
  /\ saved' = NoFile

Return(res) ==
  /\ ctlResult' = res
  /\ IF ctlStack = <<>>
     THEN ctlPc' = "idle" /\ ctlStack' = ctlStack
     ELSE ctlPc' = Head(ctlStack) /\ ctlStack' = Tail(ctlStack)

\* no handler catches: the exception unwinds to the event loop
Raise(res) ==
  /\ ctlResult' = res
  /\ ctlPc' = "idle"
  /\ ctlStack' = <<>>

\* ---- RealTimeAudioProcessor ----------------------------------------------
\* effect_class(**effect_config["parameters"])
MakeEffect(cfg) == [name |-> cfg.name, parameters |-> cfg.parameters]

RECURSIVE BuildAll(_)
BuildAll(cfgs) ==
  IF cfgs = <<>> THEN <<>> ELSE <<MakeEffect(Head(cfgs))>> \o BuildAll(Tail(cfgs))

AllKnown(cfgs) == \A i \in 1..Len(cfgs) : cfgs[i].name \in EFFECT_MAP

\* update_effects: "with self.lock:" and "new_board = Pedalboard([])"
UeAcquire ==
  /\ ctlPc = "ue_lock"
  /\ lock = "free"
  /\ lock' = "ctl"
  /\ new_board' = <<>>
  /\ ue_i' = 1
  /\ entryBoard' = board
  /\ ctlPc' = "ue_build"
  /\ UNCHANGED <<board, installed, memVars, ghostVars, is_active, recorded_chunks, sessionVars, rtVars,
                 effect_configs, ctlStack, ctlSess, ctlResult, saved, appVars>>

\* mutant: the chain is assigned inside the loop, stage by stage
UeBuild_AssignInLoop ==
  /\ ctlPc = "ue_build"
  /\ ue_i <= Len(effect_configs)
  /\ IF effect_configs[ue_i].name \in EFFECT_MAP
     THEN /\ new_board' = Append(new_board, MakeEffect(effect_configs[ue_i]))
          /\ board' = new_board'
          /\ ue_i' = ue_i + 1
          /\ UNCHANGED <<lock, ctlPc, ctlStack, ctlResult, effect_configs, entryBoard>>
     ELSE /\ lock' = "free"
          /\ Raise("KeyError")
          /\ board' = board
          /\ new_board' = <<>>
          /\ ue_i' = 1
          /\ effect_configs' = <<>>
          /\ entryBoard' = <<>>
  /\ UNCHANGED <<installed, memVars, ghostVars, is_active, recorded_chunks, sessionVars, rtVars,
                 ctlSess, saved, appVars>>

\* mutant: the lock is taken without a with block and stays held when the
\* lookup raises
UeBuild_KeepsLock ==
  /\ ctlPc = "ue_build"
  /\ ue_i <= Len(effect_configs)
  /\ IF effect_configs[ue_i].name \in EFFECT_MAP
     THEN /\ new_board' = Append(new_board, MakeEffect(effect_configs[ue_i]))
          /\ ue_i' = ue_i + 1
          /\ UNCHANGED <<lock, ctlPc, ctlStack, ctlResult, effect_configs, entryBoard>>
     ELSE /\ lock' = lock
          /\ Raise("KeyError")
          /\ new_board' = <<>>
          /\ ue_i' = 1
          /\ effect_configs' = <<>>
          /\ entryBoard' = <<>>
  /\ UNCHANGED <<board, installed, memVars, ghostVars, is_active, recorded_chunks, sessionVars, rtVars,
                 ctlSess, saved, appVars>>

\* update_effects: one iteration of the loop over effect_configs; an unknown
\* name raises KeyError out of the with block, which releases the lock
UeBuild ==
  /\ ctlPc = "ue_build"
  /\ ue_i <= Len(effect_configs)
  /\ IF effect_configs[ue_i].name \in EFFECT_MAP
     THEN /\ new_board' = Append(new_board, MakeEffect(effect_configs[ue_i]))
          /\ ue_i' = ue_i + 1
          /\ UNCHANGED <<lock, ctlPc, ctlStack, ctlResult, effect_configs, entryBoard>>
     ELSE /\ lock' = "free"
          /\ Raise("KeyError")
          /\ new_board' = <<>>
          /\ ue_i' = 1
          /\ effect_configs' = <<>>
          /\ entryBoard' = <<>>
  /\ UNCHANGED <<board, installed, memVars, ghostVars, is_active, recorded_chunks, sessionVars, rtVars,
                 ctlSess, saved, appVars>>

\* update_effects: "self.board = new_board" and the end of the with block
\* mutant: update_effects returns without making the new chain the current one
UeSwap_NoInstall ==
  /\ ctlPc = "ue_build"
  /\ ue_i > Len(effect_configs)
  /\ board' = board
  /\ installed' = BuildAll(effect_configs)
  /\ lock' = "free"
  /\ Return("ok")
  /\ new_board' = <<>>
  /\ ue_i' = 1
  /\ effect_configs' = <<>>
  /\ entryBoard' = <<>>
  /\ board_mem' = board_mem
  /\ UNCHANGED <<limiter_mem, ghostVars, is_active, recorded_chunks, sessionVars, rtVars,
                 ctlSess, saved, appVars>>

UeSwap ==
  /\ ctlPc = "ue_build"
  /\ ue_i > Len(effect_configs)
  /\ board' = new_board
  /\ installed' = BuildAll(effect_configs)
  /\ lock' = "free"
  /\ Return("ok")
  /\ new_board' = <<>>
  /\ ue_i' = 1
  /\ effect_configs' = <<>>
  /\ entryBoard' = <<>>
  /\ board_mem' = "initial"
  /\ UNCHANGED <<limiter_mem, ghostVars, is_active, recorded_chunks, sessionVars, rtVars,
                 ctlSess, saved, appVars>>

\* the frame counts the user chain may return for n frames: the external
\* effects return up to as many frames as they were given (with reset=False
\* a plugin may keep audio buffered inside itself)
ChainFrames(n) == {n, n - 1}

\* self.board(audio_chunk.T, self.samplerate, reset=False)
BoardCall(blk, f, p) == [blk EXCEPT !.frames = f, !.peak = p]

\* self.safety_limiter(processed, self.samplerate)
SafetyLimiter(blk) == [blk EXCEPT !.peak = Min(@, SafetyThreshold), !.limited = TRUE]

\* the safety limiter as a stage: Limiter(threshold_db=-1.0)
SafetyStage == [name |-> "Limiter", parameters |-> -1]

\* Pedalboard.__call__: the block goes through the plugins of the board from
\* the first to the last; path lists the stages a block has gone through
RECURSIVE Through(_, _)
Through(stages, path) ==
  IF stages = <<>> THEN path ELSE Through(Tail(stages), Append(path, Head(stages)))

\* mutant: the except branch returns what the chain produced instead of the
\* input
ProcessChunk_ReturnsProcessed(brd, audio_chunk, ok, f, p) ==
  IF Len(brd) > 0
  THEN IF ok
       THEN [blk |-> SafetyLimiter(BoardCall(audio_chunk, f, p)), caught |-> FALSE,
             path |-> Append(Through(brd, <<>>), SafetyStage)]
       ELSE [blk |-> BoardCall(audio_chunk, f, p), caught |-> TRUE, path |-> <<>>]
  ELSE [blk |-> audio_chunk, caught |-> FALSE, path |-> <<>>]

\* process_chunk, from the acquired lock to the return: ok is whether the
\* chain and the limiter ran without raising
ProcessChunk(brd, audio_chunk, ok, f, p) ==
  IF Len(brd) > 0
  THEN IF ok
       THEN [blk |-> SafetyLimiter(BoardCall(audio_chunk, f, p)), caught |-> FALSE,
             path |-> Append(Through(brd, <<>>), SafetyStage)]
       ELSE [blk |-> audio_chunk, caught |-> TRUE, path |-> <<>>]
  ELSE [blk |-> audio_chunk, caught |-> FALSE, path |-> <<>>]

\* process_chunk: "with self.lock:" on the real-time thread
CbAcquire ==
  /\ cb.pc = "lock"
  /\ lock = "free"
  /\ lock' = "rt"
  /\ cb' = [cb EXCEPT !.pc = "process"]
  /\ UNCHANGED <<board, installed, memVars, ghostVars, is_active, recorded_chunks, sessionVars, outdata, requested,
                 ueVars, ctlVars, saved, appVars>>

\* plugin(input, sample_rate, reset=...): the memory the plugin starts the
\* block with; reset=True clears it first
StartMem(mem, reset) == IF reset THEN "initial" ELSE mem

\* "self.board(audio_chunk.T, self.samplerate, reset=False)"
BoardReset == FALSE
\* "self.safety_limiter(processed, self.samplerate)": reset is left at the
\* default of Plugin.__call__, which is True
LimiterReset == TRUE

\* mutant: the except branch returns without releasing the lock
CbProcess_HoldsOnFailure ==
  /\ cb.pc = "process"
  /\ \E ok \in BOOLEAN, f \in ChainFrames(cb.frames), p \in InputPeaks :
       LET r == ProcessChunk(board, cb.blk, ok, f, p)
       IN /\ cb' = [cb EXCEPT !.pc = "append", !.blk = r.blk, !.caught = r.caught,
                               !.path = r.path,
                               !.board_in = IF Len(board) > 0
                                            THEN StartMem(board_mem, BoardReset)
                                            ELSE "none",
                               !.limiter_in = IF Len(board) > 0 /\ ok
                                              THEN StartMem(limiter_mem, LimiterReset)
                                              ELSE "none"]
          /\ board_mem' = IF Len(board) > 0 THEN "carried" ELSE board_mem
          /\ limiter_mem' = IF Len(board) > 0 /\ ok THEN "carried" ELSE limiter_mem
          /\ lock' = IF r.caught THEN "rt" ELSE "free"
  /\ UNCHANGED <<board, installed, ghostVars, is_active, recorded_chunks, sessionVars,
                 outdata, requested, ueVars, ctlVars, saved, appVars>>

\* process_chunk: the body of the with block and the release on return; a
\* plugin that was called holds the memory of the block it processed
CbProcess ==
  /\ cb.pc = "process"
  /\ \E ok \in BOOLEAN, f \in ChainFrames(cb.frames), p \in InputPeaks :
       LET r == ProcessChunk(board, cb.blk, ok, f, p)
       IN /\ cb' = [cb EXCEPT !.pc = "append", !.blk = r.blk, !.caught = r.caught,
                               !.path = r.path,
                               !.board_in = IF Len(board) > 0
                                            THEN StartMem(board_mem, BoardReset)
                                            ELSE "none",
                               !.limiter_in = IF Len(board) > 0 /\ ok
                                              THEN StartMem(limiter_mem, LimiterReset)
                                              ELSE "none"]
          /\ board_mem' = IF Len(board) > 0 THEN "carried" ELSE board_mem
          /\ limiter_mem' = IF Len(board) > 0 /\ ok THEN "carried" ELSE limiter_mem
  /\ lock' = "free"
  /\ UNCHANGED <<board, installed, ghostVars, is_active, recorded_chunks, sessionVars,
                 outdata, requested, ueVars, ctlVars, saved, appVars>>

\* the frames of the blocks, added up
RECURSIVE TotalFrames(_)
TotalFrames(chunks) ==
  IF chunks = <<>> THEN 0 ELSE Head(chunks).frames + TotalFrames(Tail(chunks))

\* the frames of a block, one by one
Samples(blk) == [j \in 1..blk.frames |-> [peak |-> blk.peak, limited |-> blk.limited]]

\* mutant: each block is put in front of the blocks before it
RECURSIVE Concatenate_Prepends(_)
Concatenate_Prepends(chunks) ==
  IF chunks = <<>> THEN <<>>
  ELSE Concatenate_Prepends(Tail(chunks)) \o Samples(Head(chunks))

\* np.concatenate(self.recorded_chunks, axis=0)
RECURSIVE Concatenate(_)
Concatenate(chunks) ==
  IF chunks = <<>> THEN <<>>
  ELSE Samples(Head(chunks)) \o Concatenate(Tail(chunks))

\* mutant: an empty buffer is written as an empty file
SaveRecording_WritesEmpty ==
  /\ ctlPc = "save"
  /\ \E io_ok \in BOOLEAN :
       IF io_ok
       THEN saved' = Written(Concatenate(recorded_chunks), Samplerate) /\ Return("True")
       ELSE saved' = NotWritten /\ Return("False")
  /\ UNCHANGED <<engineVars, sessionVars, rtVars, ueVars, ctlSess, appVars>>

\* mutant: the buffer is dropped when the write fails
SaveRecording_ClearsOnFailure ==
  /\ ctlPc = "save"
  /\ \E io_ok \in BOOLEAN :
       IF recorded_chunks # <<>>
       THEN IF io_ok
            THEN /\ saved' = Written(Concatenate(recorded_chunks), Samplerate)
                 /\ Return("True")
                 /\ UNCHANGED <<recorded_chunks, recorded_by>>
            ELSE /\ saved' = NotWritten
                 /\ Return("False")
                 /\ recorded_chunks' = <<>>
                 /\ recorded_by' = <<>>
       ELSE /\ saved' = NotWritten
            /\ Return("False")
            /\ UNCHANGED <<recorded_chunks, recorded_by>>
  /\ UNCHANGED <<board, installed, lock, is_active, memVars, owner, fresh, sessionVars,
                 rtVars, ueVars, ctlSess, appVars>>

\* save_recording: nothing is written for an empty buffer or when
\* np.concatenate or sf.write raises
SaveRecording ==
  /\ ctlPc = "save"
  /\ \E io_ok \in BOOLEAN :
       IF recorded_chunks # <<>>
       THEN IF io_ok
            THEN saved' = Written(Concatenate(recorded_chunks), Samplerate) /\ Return("True")
            ELSE saved' = NotWritten /\ Return("False")
       ELSE saved' = NotWritten /\ Return("False")
  /\ UNCHANGED <<engineVars, sessionVars, rtVars, ueVars, ctlSess, appVars>>

\* ---- bookkeeping of the sessions' history ----------------------------------
\* start() of session s has set its flags: s is the most recently started
\* session, and the blocks start() left in the buffer are another session's
Started(s, kept) ==
  /\ owner' = s
  /\ fresh' = TRUE
  /\ recorded_by' = [i \in 1..Len(kept) |-> "old"]

\* a callback of session s is invoked
Invoked(s) == fresh' = (fresh /\ owner # s)

\* ---- LiveRecordingSession ------------------------------------------------
\* start: is_running, is_active, recorded_chunks
LiveStartFlags ==
  /\ ctlPc = "ls_flags"
  /\ is_running' = [is_running EXCEPT !["live"] = TRUE]
  /\ is_active' = TRUE
  /\ recorded_chunks' = <<>>
  /\ phase' = [phase EXCEPT !["live"] = "started"]
  /\ Started("live", recorded_chunks')
  /\ ctlPc' = "ls_open"
  /\ UNCHANGED <<board, installed, memVars, lock, stream, audio_data, current_frame, rtVars,
                 ueVars, ctlStack, ctlSess, ctlResult, saved, appVars>>

\* sd.Stream(...) or sd.OutputStream(...) and stream.start(): the driver may
\* refuse to open the device or to start the stream
OpenStream(s, outcome) ==
  stream' = [stream EXCEPT ![s] = IF outcome = "ok" THEN "active"
                                  ELSE IF outcome = "start_error" THEN "open"
                                  ELSE @]

StreamOutcomes == {"ok", "open_error", "start_error"}

\* start: the stream
LiveStartStream ==
  /\ ctlPc = "ls_open"
  /\ \E outcome \in StreamOutcomes :
       /\ OpenStream("live", outcome)
       /\ IF outcome = "ok" THEN Return("None") ELSE Raise("PortAudioError")
  /\ UNCHANGED <<engineVars, is_running, audio_data, current_frame, phase, rtVars,
                 ueVars, ctlSess, saved, appVars>>

\* audio_callback of the live session, up to the call of process_chunk
LiveCallback(n, p) ==
  /\ stream["live"] = "active"
  /\ cb.pc = "idle"
  /\ IF is_running["live"]
     THEN /\ Len(recorded_chunks) < MaxChunks
          /\ cb' = [pc |-> "lock", sess |-> "live", frames |-> n, end_frame |-> 0,
                    blk |-> Block(n, p, FALSE), caught |-> FALSE,
                    board_in |-> "none", limiter_in |-> "none", path |-> <<>>]
          /\ outdata' = NoBlock
     ELSE /\ outdata' = Silence(n)
          /\ UNCHANGED cb
  /\ requested' = n
  /\ Invoked("live")
  /\ UNCHANGED <<board, installed, lock, is_active, recorded_chunks, memVars, owner,
                 recorded_by, sessionVars, ueVars, ctlVars, saved, appVars>>

\* recorded_chunks.append(processed.copy())
LiveAppend ==
  /\ cb.pc = "append"
  /\ cb.sess = "live"
  /\ recorded_chunks' = Append(recorded_chunks, cb.blk)
  /\ recorded_by' = Append(recorded_by, cb.sess)
  /\ cb' = [cb EXCEPT !.pc = "write"]
  /\ UNCHANGED <<board, installed, memVars, owner, fresh, lock, is_active, sessionVars, outdata, requested, ueVars,
                 ctlVars, saved, appVars>>

\* "outdata[:] = processed" succeeds when processed has the requested number
\* of frames or one frame (which numpy broadcasts); otherwise it raises
WriteFits(f, n) == f = n \/ f = 1

\* outdata[:] = processed; an exception leaves the callback and the driver
\* aborts the stream
LiveWrite ==
  /\ cb.pc = "write"
  /\ cb.sess = "live"
  /\ IF WriteFits(cb.blk.frames, cb.frames)
     THEN /\ outdata' = [cb.blk EXCEPT !.frames = cb.frames]
          /\ UNCHANGED stream
     ELSE /\ stream' = [stream EXCEPT !["live"] = "aborted"]
          /\ UNCHANGED outdata
  /\ cb' = IdleCb
  /\ UNCHANGED requested
  /\ UNCHANGED <<engineVars, is_running, audio_data, current_frame, phase, ueVars,
                 ctlVars, saved, appVars>>

\* ---- FilePlaybackSession -------------------------------------------------
\* mutant: only a clipping file (peak above 1.0) is scaled
Normalize_ClippingOnly(peak) ==
  IF peak > 1000 THEN (peak * 500) \div peak
  ELSE peak

\* load_file: peaks above 0.8 are scaled to 0.5
Normalize(peak) ==
  IF peak > 1000 THEN (peak * 500) \div peak
  ELSE IF peak > 800 THEN (peak * 500) \div peak
  ELSE peak

\* load_file: np.max of an empty array raises, which load_file catches
LoadFile(file) ==
  IF file.readable /\ file.len > 0
  THEN [ok |-> TRUE, data |-> [len |-> file.len, peak |-> Normalize(file.peak),
                             file_peak |-> file.peak, channels |-> file.channels]]
  ELSE [ok |-> FALSE, data |-> NoData]

\* mutant: the flags are set and the buffer is cleared before the file is
\* loaded, as in LiveRecordingSession.start
PlaybackStartLoad_FlagsFirst ==
  /\ ctlPc = "ps_load"
  /\ \E file \in Files :
       LET r == LoadFile(file)
       IN IF r.ok
          THEN /\ audio_data' = r.data
               /\ ctlPc' = "ps_flags"
               /\ UNCHANGED <<ctlStack, ctlResult, is_running, is_active, recorded_chunks,
                              ghostVars>>
          ELSE /\ UNCHANGED audio_data
               /\ is_running' = [is_running EXCEPT !["playback"] = TRUE]
               /\ is_active' = TRUE
               /\ recorded_chunks' = <<>>
               /\ Started("playback", recorded_chunks')
               /\ Return("False")
  /\ UNCHANGED <<board, installed, lock, memVars, stream, current_frame, phase, rtVars,
                 ueVars, ctlSess, saved, appVars>>

\* start: "if not self.load_file(): return False", for a file of files
PlaybackStartLoadOf(files) ==
  /\ ctlPc = "ps_load"
  /\ \E file \in files :
       LET r == LoadFile(file)
       IN IF r.ok
          THEN /\ audio_data' = r.data
               /\ ctlPc' = "ps_flags"
               /\ UNCHANGED <<ctlStack, ctlResult>>
          ELSE /\ UNCHANGED audio_data
               /\ Return("False")
  /\ UNCHANGED <<engineVars, is_running, stream, current_frame, phase, rtVars,
                 ueVars, ctlSess, saved, appVars>>

\* start: "if not self.load_file(): return False"
PlaybackStartLoad ==
  PlaybackStartLoadOf(Files)

\* mutant: start() keeps the buffer of the previous session
PlaybackStartFlags_NoClear ==
  /\ ctlPc = "ps_flags"
  /\ is_running' = [is_running EXCEPT !["playback"] = TRUE]
  /\ is_active' = TRUE
  /\ recorded_chunks' = recorded_chunks
  /\ current_frame' = 0
  /\ phase' = [phase EXCEPT !["playback"] = "started"]
  /\ Started("playback", recorded_chunks')
  /\ ctlPc' = "ps_open"
  /\ UNCHANGED <<board, installed, memVars, lock, stream, audio_data, rtVars, ueVars,
                 ctlStack, ctlSess, ctlResult, saved, appVars>>

\* start: is_running, is_active, recorded_chunks, current_frame
PlaybackStartFlags ==
  /\ ctlPc = "ps_flags"
  /\ is_running' = [is_running EXCEPT !["playback"] = TRUE]
  /\ is_active' = TRUE
  /\ recorded_chunks' = <<>>
  /\ current_frame' = 0
  /\ phase' = [phase EXCEPT !["playback"] = "started"]
  /\ Started("playback", recorded_chunks')
  /\ ctlPc' = "ps_open"
  /\ UNCHANGED <<board, installed, memVars, lock, stream, audio_data, rtVars, ueVars,
                 ctlStack, ctlSess, ctlResult, saved, appVars>>

\* start: the stream, "return True"
PlaybackStartStream ==
  /\ ctlPc = "ps_open"
  /\ \E outcome \in StreamOutcomes :
       /\ OpenStream("playback", outcome)
       /\ IF outcome = "ok" THEN Return("True") ELSE Raise("PortAudioError")
  /\ UNCHANGED <<engineVars, is_running, audio_data, current_frame, phase, rtVars,
                 ueVars, ctlSess, saved, appVars>>

\* audio_callback of the playback session, up to the call of process_chunk;
\* the chunk is padded to the requested length
\* mutant: the last window of the file is handed on as short as it is
Pad_None(blk, n) == blk

\* "if len(chunk) < frames: chunk = np.pad(chunk, ...)"
Pad(blk, n) == IF blk.frames < n THEN [blk EXCEPT !.frames = n] ELSE blk

\* mutant: the window ends at current_frame + frames, also past the end of
\* the file
PlaybackCallback_PastEnd(n) ==
  /\ stream["playback"] = "active"
  /\ cb.pc = "idle"
  /\ IF is_running["playback"] /\ current_frame < audio_data.len
     THEN /\ cb' = [pc |-> "lock", sess |-> "playback", frames |-> n,
                    end_frame |-> current_frame + n,
                    blk |-> Pad(Block(Min(current_frame + n, audio_data.len)
                                        - current_frame, audio_data.peak, FALSE), n),
                    caught |-> FALSE,
                    board_in |-> "none", limiter_in |-> "none", path |-> <<>>]
          /\ outdata' = NoBlock
          /\ UNCHANGED is_running
     ELSE /\ outdata' = Silence(n)
          /\ is_running' = IF current_frame >= audio_data.len
                           THEN [is_running EXCEPT !["playback"] = FALSE]
                           ELSE is_running
          /\ UNCHANGED cb
  /\ requested' = n
  /\ Invoked("playback")
  /\ UNCHANGED <<board, installed, lock, is_active, recorded_chunks, memVars, owner,
                 recorded_by, stream, audio_data, current_frame, phase, ueVars,
                 ctlVars, saved, appVars>>

PlaybackCallback(n) ==
  /\ stream["playback"] = "active"
  /\ cb.pc = "idle"
  /\ IF is_running["playback"] /\ current_frame < audio_data.len
     THEN /\ cb' = [pc |-> "lock", sess |-> "playback", frames |-> n,
                    end_frame |-> Min(current_frame + n, audio_data.len),
                    blk |-> Pad(Block(Min(current_frame + n, audio_data.len)
                                        - current_frame, audio_data.peak, FALSE), n),
                    caught |-> FALSE,
                    board_in |-> "none", limiter_in |-> "none", path |-> <<>>]
          /\ outdata' = NoBlock
          /\ UNCHANGED is_running
     ELSE /\ outdata' = Silence(n)
          /\ is_running' = IF current_frame >= audio_data.len
                           THEN [is_running EXCEPT !["playback"] = FALSE]
                           ELSE is_running
          /\ UNCHANGED cb
  /\ requested' = n
  /\ Invoked("playback")
  /\ UNCHANGED <<board, installed, lock, is_active, recorded_chunks, memVars, owner,
                 recorded_by, stream, audio_data, current_frame, phase, ueVars,
                 ctlVars, saved, appVars>>

\* processed[:k]
Slice(blk, k) == [blk EXCEPT !.frames = Min(@, k)]

\* recorded_chunks.append(processed[:end_frame - self.current_frame].copy())
PlaybackAppend ==
  /\ cb.pc = "append"
  /\ cb.sess = "playback"
  /\ recorded_chunks' = Append(recorded_chunks, Slice(cb.blk, cb.end_frame - current_frame))
  /\ recorded_by' = Append(recorded_by, cb.sess)
  /\ cb' = [cb EXCEPT !.pc = "write"]
  /\ UNCHANGED <<board, installed, memVars, owner, fresh, lock, is_active, sessionVars, outdata, requested, ueVars,
                 ctlVars, saved, appVars>>

\* mutant: at the end of the file the callback also marks the engine inactive
PlaybackWrite_MarksInactive ==
  /\ cb.pc = "write"
  /\ cb.sess = "playback"
  /\ IF WriteFits(cb.blk.frames, cb.frames)
     THEN /\ outdata' = [cb.blk EXCEPT !.frames = cb.frames]
          /\ current_frame' = cb.end_frame
          /\ is_running' = IF cb.end_frame >= audio_data.len
                           THEN [is_running EXCEPT !["playback"] = FALSE]
                           ELSE is_running
          /\ is_active' = IF cb.end_frame >= audio_data.len THEN FALSE ELSE is_active
          /\ UNCHANGED stream
     ELSE /\ stream' = [stream EXCEPT !["playback"] = "aborted"]
          /\ UNCHANGED <<outdata, current_frame, is_running, is_active>>
  /\ cb' = IdleCb
  /\ UNCHANGED requested
  /\ UNCHANGED <<board, installed, lock, recorded_chunks, memVars, ghostVars,
                 audio_data, phase, ueVars, ctlVars, saved, appVars>>

\* outdata[:] = processed; current_frame = end_frame; the completion test
PlaybackWrite ==
  /\ cb.pc = "write"
  /\ cb.sess = "playback"
  /\ IF WriteFits(cb.blk.frames, cb.frames)
     THEN /\ outdata' = [cb.blk EXCEPT !.frames = cb.frames]
          /\ current_frame' = cb.end_frame
          /\ is_running' = IF cb.end_frame >= audio_data.len
                           THEN [is_running EXCEPT !["playback"] = FALSE]
                           ELSE is_running
          /\ UNCHANGED stream
     ELSE /\ stream' = [stream EXCEPT !["playback"] = "aborted"]
          /\ UNCHANGED <<outdata, current_frame, is_running>>
  /\ cb' = IdleCb
  /\ UNCHANGED requested
  /\ UNCHANGED <<engineVars, audio_data, phase, ueVars, ctlVars, saved, appVars>>

\* ---- stop() of either session class --------------------------------------
\* self.is_running = False
\* mutant: stop() marks the engine inactive without stopping the stream
StopFlag_SkipsStream ==
  /\ ctlPc = "sp_flag"
  /\ is_running' = [is_running EXCEPT ![ctlSess] = FALSE]
  /\ ctlPc' = "sp_inactive"
  /\ UNCHANGED <<engineVars, stream, audio_data, current_frame, phase, rtVars,
                 ueVars, ctlStack, ctlSess, ctlResult, saved, appVars>>

StopFlag ==
  /\ ctlPc = "sp_flag"
  /\ is_running' = [is_running EXCEPT ![ctlSess] = FALSE]
  /\ ctlPc' = "sp_stream"
  /\ UNCHANGED <<engineVars, stream, audio_data, current_frame, phase, rtVars,
                 ueVars, ctlStack, ctlSess, ctlResult, saved, appVars>>

\* mutant: stream.stop() returns while a callback is still executing
StreamQuiet_NoWait(s) == TRUE

\* stream.stop() returns once no callback of the stream is executing
StreamQuiet(s) == cb.pc = "idle" \/ cb.sess # s

\* "if self.stream: self.stream.stop(); self.stream.close()"
StopStream ==
  /\ ctlPc = "sp_stream"
  /\ IF stream[ctlSess] = "None"
     THEN UNCHANGED stream
     ELSE /\ stream[ctlSess] = "active" => StreamQuiet(ctlSess)
          /\ stream' = [stream EXCEPT ![ctlSess] = "closed"]
  /\ ctlPc' = "sp_inactive"
  /\ UNCHANGED <<engineVars, is_running, audio_data, current_frame, phase, rtVars,
                 ueVars, ctlStack, ctlSess, ctlResult, saved, appVars>>

\* self.processor.is_active = False
StopInactive ==
  /\ ctlPc = "sp_inactive"
  /\ is_active' = FALSE
  /\ phase' = [phase EXCEPT ![ctlSess] = "stopped"]
  /\ Return("None")
  /\ UNCHANGED <<board, installed, memVars, ghostVars, lock, recorded_chunks, is_running, stream,
                 audio_data, current_frame, rtVars, ueVars, ctlSess, saved, appVars>>

\* ---- construction ---------------------------------------------------------
\* LiveRecordingSession.__init__ / FilePlaybackSession.__init__
NewSession(s) ==
  /\ is_running' = [is_running EXCEPT ![s] = FALSE]
  /\ stream' = [stream EXCEPT ![s] = "None"]
  /\ phase' = [phase EXCEPT ![s] = "idle"]
  /\ IF s = "playback"
     THEN audio_data' = NoData /\ current_frame' = 0
     ELSE UNCHANGED <<audio_data, current_frame>>

\* RealTimeAudioProcessor.__init__ and RealTimeAudioApp.__init__ (which ends
\* with update_effect_chain() on the empty chain)
Init ==
  /\ board = <<>>
  /\ installed = <<>>
  /\ lock = "free"
  /\ is_active = FALSE
  /\ recorded_chunks = <<>>
  /\ board_mem = "initial"
  /\ limiter_mem = "initial"
  /\ owner = "none"
  /\ fresh = FALSE
  /\ recorded_by = <<>>
  /\ is_running = [s \in Sessions |-> FALSE]
  /\ stream = [s \in Sessions |-> "None"]
  /\ audio_data = NoData
  /\ current_frame = 0
  /\ phase = [s \in Sessions |-> "idle"]
  /\ cb = IdleCb
  /\ outdata = NoBlock
  /\ requested = 0
  /\ ctlPc = "idle"
  /\ ctlStack = <<>>
  /\ ctlSess = "live"
  /\ effect_configs = <<>>
  /\ ue_i = 1
  /\ new_board = <<>>
  /\ entryBoard = <<>>
  /\ ctlResult = "ok"
  /\ saved = NoFile
  /\ app_is_active = FALSE
  /\ live_session = FALSE
  /\ playback_session = FALSE
  /\ mode = "Record Live"
  /\ input_file = FALSE
  /\ controls = "normal"
  /\ download_btn = FALSE
  /\ dialog = FALSE
  /\ timers = 0
  /\ effect_chain = <<>>

\* ---- a caller of the engine's classes ------------------------------------
\* A session object is used for one start/stop cycle: the caller holds one
\* object of each class, calls start() once on it and only while no other
\* stream is running, and may call stop() on it at any time.

ClientUpdateEffects(cfgs) ==
  /\ Call("ue_lock")
  /\ effect_configs' = cfgs
  /\ UNCHANGED <<engineVars, sessionVars, rtVars, ue_i, new_board, entryBoard,
                 ctlStack, ctlSess, appVars>>

ClientStart(s) ==
  /\ Call(IF s = "live" THEN "ls_flags" ELSE "ps_load")
  /\ phase[s] = "idle"
  /\ \A t \in Sessions : stream[t] # "active"
  /\ ctlSess' = s
  /\ UNCHANGED <<engineVars, sessionVars, rtVars, ueVars, ctlStack, appVars>>

ClientStop(s) ==
  /\ Call("sp_flag")
  /\ phase[s] # "none"
  /\ ctlSess' = s
  /\ UNCHANGED <<engineVars, sessionVars, rtVars, ueVars, ctlStack, appVars>>

ClientSave ==
  /\ Call("save")
  /\ UNCHANGED <<engineVars, sessionVars, rtVars, ueVars, ctlStack, ctlSess, appVars>>

\* ---- RealTimeAudioApp ----------------------------------------------------
\* the effects the left panel offers, and the values a slider is dragged to
PanelEffects == {"Gain"}
SliderValues == {0, 6}

\* EffectCard.__init__: parameters start at the declared defaults
NewCard(name) == [name |-> name, parameters |-> EFFECTS[name].default]

\* update_effect_chain: the config list of the cards, handed to update_effects
UpdateEffectChain(cards) ==
  /\ effect_configs' = [i \in 1..Len(cards) |->
                          [name |-> cards[i].name, parameters |-> cards[i].parameters]]
  /\ UNCHANGED <<ue_i, new_board, entryBoard>>

\* an event of the main window is handled when the event loop is idle and no
\* DownloadDialog holds the grab
MainWindowEvent(pc) == Call(pc) /\ ~dialog

\* add_effect
AppAddEffect(name) ==
  /\ MainWindowEvent("ue_lock")
  /\ Len(effect_chain) < MaxCards
  /\ effect_chain' = Append(effect_chain, NewCard(name))
  /\ UpdateEffectChain(effect_chain')
  /\ UNCHANGED <<engineVars, sessionVars, rtVars, ctlStack, ctlSess, app_is_active,
                 live_session, playback_session, mode, input_file, controls,
                 download_btn, dialog, timers>>

RemoveAt(q, i) == [j \in 1..(Len(q) - 1) |-> IF j < i THEN q[j] ELSE q[j + 1]]

\* remove_effect
AppRemoveEffect(i) ==
  /\ MainWindowEvent("ue_lock")
  /\ i \in 1..Len(effect_chain)
  /\ effect_chain' = RemoveAt(effect_chain, i)
  /\ UpdateEffectChain(effect_chain')
  /\ UNCHANGED <<engineVars, sessionVars, rtVars, ctlStack, ctlSess, app_is_active,
                 live_session, playback_session, mode, input_file, controls,
                 download_btn, dialog, timers>>

\* mutant: the card is copied over its neighbour
Swap_Overwrite(q, i, j) == [q EXCEPT ![j] = q[i]]

\* "a[i], a[j] = a[j], a[i]"
Swap(q, i, j) == [q EXCEPT ![i] = q[j], ![j] = q[i]]

\* move_effect_up on the card at position i: the list afterwards and whether
\* the chain is rebuilt
MoveEffectUp(chain, i) ==
  IF i > 1
  THEN [chain |-> Swap(chain, i, i - 1), rebuilt |-> TRUE]
  ELSE [chain |-> chain, rebuilt |-> FALSE]

\* move_effect_down on the card at position i
MoveEffectDown(chain, i) ==
  IF i < Len(chain)
  THEN [chain |-> Swap(chain, i, i + 1), rebuilt |-> TRUE]
  ELSE [chain |-> chain, rebuilt |-> FALSE]

\* move_effect_up: the first card stays and the chain is not rebuilt
AppMoveUp(i) ==
  /\ i \in 1..Len(effect_chain)
  /\ IF MoveEffectUp(effect_chain, i).rebuilt
     THEN /\ MainWindowEvent("ue_lock")
          /\ effect_chain' = MoveEffectUp(effect_chain, i).chain
          /\ UpdateEffectChain(effect_chain')
     ELSE /\ MainWindowEvent("idle")
          /\ UNCHANGED <<effect_chain, ueVars>>
  /\ UNCHANGED <<engineVars, sessionVars, rtVars, ctlStack, ctlSess, app_is_active,
                 live_session, playback_session, mode, input_file, controls,
                 download_btn, dialog, timers>>

\* move_effect_down: the last card stays and the chain is not rebuilt
AppMoveDown(i) ==
  /\ i \in 1..Len(effect_chain)
  /\ IF MoveEffectDown(effect_chain, i).rebuilt
     THEN /\ MainWindowEvent("ue_lock")
          /\ effect_chain' = MoveEffectDown(effect_chain, i).chain
          /\ UpdateEffectChain(effect_chain')
     ELSE /\ MainWindowEvent("idle")
          /\ UNCHANGED <<effect_chain, ueVars>>
  /\ UNCHANGED <<engineVars, sessionVars, rtVars, ctlStack, ctlSess, app_is_active,
                 live_session, playback_session, mode, input_file, controls,
                 download_btn, dialog, timers>>

\* mutant: the value is stored in the card and the chain is not rebuilt
AppUpdateParameter_NoRebuild(i, value) ==
  /\ MainWindowEvent("idle")
  /\ i \in 1..Len(effect_chain)
  /\ effect_chain' = [effect_chain EXCEPT ![i].parameters = value]
  /\ UNCHANGED <<engineVars, sessionVars, rtVars, ueVars, ctlStack, ctlSess, app_is_active,
                 live_session, playback_session, mode, input_file, controls,
                 download_btn, dialog, timers>>

\* update_parameter
AppUpdateParameter(i, value) ==
  /\ MainWindowEvent("ue_lock")
  /\ i \in 1..Len(effect_chain)
  /\ effect_chain' = [effect_chain EXCEPT ![i].parameters = value]
  /\ UpdateEffectChain(effect_chain')
  /\ UNCHANGED <<engineVars, sessionVars, rtVars, ctlStack, ctlSess, app_is_active,
                 live_session, playback_session, mode, input_file, controls,
                 download_btn, dialog, timers>>

\* toggle_audio when a session is active: stop_audio
AppToggleStop ==
  /\ MainWindowEvent("stop_live")
  /\ app_is_active
  /\ UNCHANGED <<engineVars, sessionVars, rtVars, ueVars, ctlStack, ctlSess, appVars>>

\* toggle_audio, start_audio in mode "Record Live"
AppStartLive ==
  /\ MainWindowEvent("ls_flags")
  /\ ~app_is_active
  /\ mode = "Record Live"
  /\ live_session' = TRUE
  /\ NewSession("live")
  /\ ctlSess' = "live"
  /\ ctlStack' = <<"live_started">>
  /\ UNCHANGED <<engineVars, rtVars, ueVars, app_is_active, playback_session, mode,
                 input_file, controls, download_btn, dialog, timers, effect_chain>>

\* start_audio after live_session.start() returned
AppLiveStarted ==
  /\ ctlPc = "live_started"
  /\ app_is_active' = TRUE
  /\ controls' = "disabled"
  /\ Return(ctlResult)
  /\ UNCHANGED <<engineVars, sessionVars, rtVars, ueVars, ctlSess, saved,
                 live_session, playback_session, mode, input_file, download_btn,
                 dialog, timers, effect_chain>>

\* toggle_audio, start_audio in mode "Play File": without a file the file
\* dialog is shown first, and nothing starts when the user cancels it
AppStartPlayback(picked) ==
  /\ ~app_is_active
  /\ mode = "Play File"
  /\ timers < MaxTimers
  /\ IF input_file \/ picked
     THEN /\ MainWindowEvent("ps_load")
          /\ input_file' = TRUE
          /\ playback_session' = TRUE
          /\ NewSession("playback")
          /\ ctlSess' = "playback"
          /\ ctlStack' = <<"playback_started">>
     ELSE /\ MainWindowEvent("idle")
          /\ UNCHANGED <<input_file, playback_session, sessionVars, ctlSess, ctlStack>>
  /\ UNCHANGED <<engineVars, rtVars, ueVars, app_is_active, live_session, mode,
                 controls, download_btn, dialog, timers, effect_chain>>

\* monitor_playback: stop_audio once the playback session is no longer
\* running, else look again in 100 ms while the application is active
MonitorPlayback(active) ==
  IF playback_session /\ ~is_running["playback"]
  THEN /\ ctlPc' = "stop_live"
       /\ UNCHANGED <<ctlStack, ctlResult>>
       /\ timers' = timers
  ELSE /\ Return(ctlResult)
       /\ timers' = IF active THEN timers + 1 ELSE timers

\* start_audio after playback_session.start() returned
AppPlaybackStarted ==
  /\ ctlPc = "playback_started"
  /\ IF ctlResult = "True"
     THEN /\ app_is_active' = TRUE
          /\ controls' = "disabled"
          /\ MonitorPlayback(TRUE)
     ELSE /\ Return(ctlResult)
          /\ UNCHANGED <<app_is_active, controls, timers>>
  /\ UNCHANGED <<engineVars, sessionVars, rtVars, ueVars, ctlSess, saved,
                 live_session, playback_session, mode, input_file, download_btn,
                 dialog, effect_chain>>

\* mutant: monitor_playback does not look again while the session runs
AppMonitorTimer_NoRearm ==
  /\ ctlPc = "idle"
  /\ timers > 0
  /\ saved' = NoFile
  /\ LET left == timers - 1
     IN IF playback_session /\ ~is_running["playback"]
        THEN /\ ctlPc' = "stop_live"
             /\ ctlResult' = "None"
             /\ timers' = left
        ELSE /\ ctlPc' = "idle"
             /\ ctlResult' = "None"
             /\ timers' = left
  /\ UNCHANGED <<engineVars, sessionVars, rtVars, ueVars, ctlStack, ctlSess,
                 app_is_active, live_session, playback_session, mode, input_file,
                 controls, download_btn, dialog, effect_chain>>

\* the timer set by monitor_playback fires
AppMonitorTimer ==
  /\ ctlPc = "idle"
  /\ timers > 0
  /\ saved' = NoFile
  /\ LET left == timers - 1
     IN IF playback_session /\ ~is_running["playback"]
        THEN /\ ctlPc' = "stop_live"
             /\ ctlResult' = "None"
             /\ timers' = left
        ELSE /\ ctlPc' = "idle"
             /\ ctlResult' = "None"
             /\ timers' = IF app_is_active THEN left + 1 ELSE left
  /\ UNCHANGED <<engineVars, sessionVars, rtVars, ueVars, ctlStack, ctlSess,
                 app_is_active, live_session, playback_session, mode, input_file,
                 controls, download_btn, dialog, effect_chain>>

\* stop_audio: "if self.live_session: self.live_session.stop()"
AppStopLive ==
  /\ ctlPc = "stop_live"
  /\ IF live_session
     THEN /\ ctlSess' = "live"
          /\ ctlPc' = "sp_flag"
          /\ ctlStack' = <<"stop_playback">> \o ctlStack
     ELSE /\ ctlPc' = "stop_playback"
          /\ UNCHANGED <<ctlSess, ctlStack>>
  /\ UNCHANGED <<engineVars, sessionVars, rtVars, ueVars, ctlResult, saved, appVars>>

\* stop_audio: "self.live_session = None" and
\* "if self.playback_session: self.playback_session.stop()"
AppStopPlayback ==
  /\ ctlPc = "stop_playback"
  /\ live_session' = FALSE
  /\ IF playback_session
     THEN /\ ctlSess' = "playback"
          /\ ctlPc' = "sp_flag"
          /\ ctlStack' = <<"stop_done">> \o ctlStack
     ELSE /\ ctlPc' = "stop_done"
          /\ UNCHANGED <<ctlSess, ctlStack>>
  /\ UNCHANGED <<engineVars, sessionVars, rtVars, ueVars, ctlResult, saved,
                 app_is_active, playback_session, mode, input_file, controls,
                 download_btn, dialog, timers, effect_chain>>

\* stop_audio: "self.playback_session = None", is_active, the controls, and
\* the download button when something was recorded
AppStopDone ==
  /\ ctlPc = "stop_done"
  /\ playback_session' = FALSE
  /\ app_is_active' = FALSE
  /\ controls' = "normal"
  /\ download_btn' = (download_btn \/ recorded_chunks # <<>>)
  /\ Return("None")
  /\ UNCHANGED <<engineVars, sessionVars, rtVars, ueVars, ctlSess, saved,
                 live_session, mode, input_file, dialog, timers, effect_chain>>

\* on_mode_change: the selector already shows the new value
AppModeChange(value) ==
  /\ MainWindowEvent(IF app_is_active THEN "stop_live" ELSE "idle")
  /\ controls = "normal"
  /\ value # mode
  /\ mode' = value
  /\ UNCHANGED <<engineVars, sessionVars, rtVars, ueVars, ctlStack, ctlSess,
                 app_is_active, live_session, playback_session, input_file, controls,
                 download_btn, dialog, timers, effect_chain>>

\* browse_file from the "Change File" button, shown in mode "Play File"
AppBrowseFile(picked) ==
  /\ MainWindowEvent(IF picked /\ app_is_active THEN "stop_live" ELSE "idle")
  /\ controls = "normal"
  /\ mode = "Play File"
  /\ input_file' = (input_file \/ picked)
  /\ UNCHANGED <<engineVars, sessionVars, rtVars, ueVars, ctlStack, ctlSess,
                 app_is_active, live_session, playback_session, mode, controls,
                 download_btn, dialog, timers, effect_chain>>

\* download_audio: with something recorded, DownloadDialog.__init__ reads
\* recorded_chunks for the duration and takes the grab
AppDownload ==
  /\ MainWindowEvent("idle")
  /\ download_btn
  /\ dialog' = (recorded_chunks # <<>>)
  /\ UNCHANGED <<engineVars, sessionVars, rtVars, ueVars, ctlStack, ctlSess,
                 app_is_active, live_session, playback_session, mode, input_file,
                 controls, download_btn, timers, effect_chain>>

\* DownloadDialog.save_file with a path chosen
AppDialogSave ==
  /\ Call("save")
  /\ dialog
  /\ ctlStack' = <<"dialog_saved">>
  /\ UNCHANGED <<engineVars, sessionVars, rtVars, ueVars, ctlSess, appVars>>

\* DownloadDialog.save_file after save_recording returned: the dialog closes
\* on success
AppDialogSaved ==
  /\ ctlPc = "dialog_saved"
  /\ dialog' = (ctlResult # "True")
  /\ Return(ctlResult)
  /\ UNCHANGED <<engineVars, sessionVars, rtVars, ueVars, ctlSess, saved,
                 app_is_active, live_session, playback_session, mode, input_file,
                 controls, download_btn, timers, effect_chain>>

\* the Cancel button of the DownloadDialog
AppDialogCancel ==
  /\ Call("idle")
  /\ dialog
  /\ dialog' = FALSE
  /\ UNCHANGED <<engineVars, sessionVars, rtVars, ueVars, ctlStack, ctlSess,
                 app_is_active, live_session, playback_session, mode, input_file,
                 controls, download_btn, timers, effect_chain>>

\* the steps of the engine's operations and of the callbacks
EngineStep ==
  \/ UeAcquire \/ UeBuild \/ UeSwap
  \/ SaveRecording
  \/ LiveStartFlags \/ LiveStartStream
  \/ PlaybackStartLoad \/ PlaybackStartFlags \/ PlaybackStartStream
  \/ StopFlag \/ StopStream \/ StopInactive

CallbackStep ==
  \/ \E n \in 1..MaxFrames, p \in InputPeaks : LiveCallback(n, p)
  \/ \E n \in 1..MaxFrames : PlaybackCallback(n)
  \/ CbAcquire \/ CbProcess
  \/ LiveAppend \/ LiveWrite
  \/ PlaybackAppend \/ PlaybackWrite

Next ==
  \/ \E cfgs \in ConfigLists : ClientUpdateEffects(cfgs)
  \/ \E s \in Sessions : ClientStart(s)
  \/ \E s \in Sessions : ClientStop(s)
  \/ ClientSave
  \/ EngineStep
  \/ CallbackStep

Spec == Init /\ [][Next]_vars

\* the scheduling: the control thread runs an operation it has begun to its
\* end, the driver keeps invoking the callback of a started stream and runs
\* each invocation to its end, and a callback waiting for the lock gets it
FairSpec ==
  /\ Spec
  /\ WF_vars(EngineStep)
  /\ WF_vars(CallbackStep)
  /\ SF_vars(CbAcquire)

\* the engine with a live session: update_effects, start() and stop() on the
\* control thread and the callbacks of the live stream
LockEngineStep ==
  \/ UeAcquire \/ UeBuild \/ UeSwap
  \/ LiveStartFlags \/ LiveStartStream
  \/ StopFlag \/ StopStream \/ StopInactive

LockCallbackStep ==
  \/ \E n \in 1..MaxFrames, p \in InputPeaks : LiveCallback(n, p)
  \/ CbAcquire \/ CbProcess
  \/ LiveAppend \/ LiveWrite

LockNext ==
  \/ \E cfgs \in ConfigLists : ClientUpdateEffects(cfgs)
  \/ ClientStart("live")
  \/ ClientStop("live")
  \/ LockEngineStep
  \/ LockCallbackStep

LockSpec == Init /\ [][LockNext]_vars

\* the scheduling of FairSpec, and a control thread waiting for the lock gets
\* it: the real-time thread leaves the lock free between two blocks
LockFairSpec ==
  /\ LockSpec
  /\ WF_vars(LockEngineStep)
  /\ WF_vars(LockCallbackStep)
  /\ SF_vars(CbAcquire)
  /\ SF_vars(UeAcquire)

\* the effect panel and the chain of cards alone: adding, removing, moving
\* and adjusting cards of two kinds
EditEffects == {"Gain", "Delay"}

EditNext ==
  \/ \E name \in EditEffects : AppAddEffect(name)
  \/ \E i \in 1..MaxCards : AppRemoveEffect(i)
  \/ \E i \in 1..MaxCards : AppMoveUp(i)
  \/ \E i \in 1..MaxCards : AppMoveDown(i)
  \/ \E i \in 1..MaxCards, value \in SliderValues : AppUpdateParameter(i, value)
  \/ UeAcquire \/ UeBuild \/ UeSwap

EditSpec == Init /\ [][EditNext]_vars

\* update_effects on the lists of BuildLists
BuildNext ==
  \/ \E cfgs \in BuildLists : ClientUpdateEffects(cfgs)
  \/ UeAcquire \/ UeBuild \/ UeSwap

BuildSpec == Init /\ [][BuildNext]_vars

\* FilePlaybackSession.start() on files of every peak in LoadPeaks
LoadNext ==
  \/ ClientStart("playback")
  \/ PlaybackStartLoadOf(LoadFiles)
  \/ PlaybackStartFlags
  \/ PlaybackStartStream

LoadSpec == Init /\ [][LoadNext]_vars

AppStep ==
  \/ \E name \in PanelEffects : AppAddEffect(name)
  \/ \E i \in 1..MaxCards : AppRemoveEffect(i)
  \/ \E i \in 1..MaxCards : AppMoveUp(i)
  \/ \E i \in 1..MaxCards : AppMoveDown(i)
  \/ \E i \in 1..MaxCards, value \in SliderValues : AppUpdateParameter(i, value)
  \/ AppToggleStop
  \/ AppStartLive \/ AppLiveStarted
  \/ \E picked \in BOOLEAN : AppStartPlayback(picked)
  \/ AppPlaybackStarted
  \/ AppMonitorTimer
  \/ AppStopLive \/ AppStopPlayback \/ AppStopDone
  \/ \E value \in {"Record Live", "Play File"} : AppModeChange(value)
  \/ \E picked \in BOOLEAN : AppBrowseFile(picked)
  \/ AppDownload
  \/ AppDialogSave \/ AppDialogSaved \/ AppDialogCancel

AppNext == AppStep \/ EngineStep \/ CallbackStep

\* the application: the control thread runs the handlers of RealTimeAudioApp
AppSpec == Init /\ [][AppNext]_vars

\* the application used for file playback only: the user picks the mode and
\* the file, starts and stops, adds effects and opens and closes the
\* download dialog; a live session is never started
PlaybackEngineStep ==
  \/ UeAcquire \/ UeBuild \/ UeSwap
  \/ PlaybackStartLoad \/ PlaybackStartFlags \/ PlaybackStartStream
  \/ StopFlag \/ StopStream \/ StopInactive

PlaybackCallbackStep ==
  \/ \E n \in 1..MaxFrames : PlaybackCallback(n)
  \/ CbAcquire \/ CbProcess
  \/ PlaybackAppend \/ PlaybackWrite

\* the steps by which the control thread goes on with a handler it is in
PlaybackControlStep ==
  \/ AppPlaybackStarted
  \/ AppStopLive \/ AppStopPlayback \/ AppStopDone

PlaybackAppNext ==
  \/ \E name \in PanelEffects : AppAddEffect(name)
  \/ \E value \in {"Record Live", "Play File"} : AppModeChange(value)
  \/ \E picked \in BOOLEAN : AppStartPlayback(picked)
  \/ AppToggleStop
  \/ AppDownload \/ AppDialogCancel
  \/ AppMonitorTimer
  \/ PlaybackControlStep
  \/ PlaybackEngineStep
  \/ PlaybackCallbackStep

PlaybackAppSpec == Init /\ [][PlaybackAppNext]_vars

\* the scheduling of the application: the control thread runs a handler it
\* has begun to its end, the event loop fires a timer that is due however
\* many other events arrive, and the driver runs as in FairSpec
PlaybackAppFairSpec ==
  /\ PlaybackAppSpec
  /\ WF_vars(PlaybackEngineStep)
  /\ WF_vars(PlaybackControlStep)
  /\ SF_vars(AppMonitorTimer)
  /\ WF_vars(PlaybackCallbackStep)
  /\ SF_vars(CbAcquire)

\* ==== claims ===============================================================
\* a session is running: its stream invokes callbacks that process and append
SessionRunning == \E s \in Sessions : stream[s] = "active" /\ is_running[s]

\* a callback of session s is executing
InFlight(s) == cb.pc # "idle" /\ cb.sess = s

\* C1: while the control thread holds the engine lock inside update_effects,
\* the only step left is the swap of the already built chain, whatever the
\* number of stages
C1_LockHeldOnlyForSwap ==
  lock = "ctl" => (ctlPc = "ue_build" /\ ue_i > Len(effect_configs))

\* C2: every block is processed through a complete chain: the chain installed
\* by the last update_effects that returned normally, never a prefix of a
\* chain under construction or a mix of old and new stages
C2_ChainReplacedAtomically ==
  cb.pc = "process" => board = installed

\* C2 witness: a block is being processed under the old two-stage chain while
\* update_effects with a different chain waits for the lock
C2_Witness ==
  /\ cb.pc = "process"
  /\ ctlPc = "ue_lock"
  /\ Len(board) = 2
  /\ AllKnown(effect_configs)
  /\ BuildAll(effect_configs) # board

\* C3: every block process_chunk returns without a processing failure has
\* passed the safety limiter, so its peak is at most the limiter's threshold,
\* also with an empty chain
C3_OutputWithinThreshold ==
  (cb.pc \in {"append", "write"} /\ ~cb.caught) => cb.blk.peak <= SafetyThreshold

\* C4: the control thread reads recorded_chunks (when a DownloadDialog opens,
\* in save_recording, in the check at the end of stop_audio) only while no
\* session is running
C4_ReadOnlyWhenStopped ==
  [][((~dialog /\ dialog') \/ ctlPc = "save" \/ ctlPc = "stop_done") => ~SessionRunning]_vars

\* C5: every access to recorded_chunks is made with the engine lock held: the
\* callback appends while the real-time thread holds the lock, and start()
\* clears the buffer while the control thread holds it
C5_BufferAccessUnderLock ==
  /\ cb.pc = "append" => lock = "rt"
  /\ ctlPc \in {"ls_flags", "ps_flags"} => lock = "ctl"

\* C6: when a stage or the limiter fails, process_chunk returns the input block
\* unchanged without raising, releases the lock, and leaves the chain, the
\* running flags and the streams as they were, so the callback goes on
C6_FailurePassesThrough ==
  [][(cb.pc = "process" /\ cb'.caught) =>
       /\ cb'.blk = cb.blk
       /\ cb'.pc = "append"
       /\ lock' = "free"
       /\ board' = board
       /\ is_running' = is_running
       /\ stream' = stream]_vars

\* C6 witness: a failure was caught for a block of a running session with a
\* non-empty chain, and the callback is about to append the passed-through block
C6_Witness ==
  /\ cb.caught
  /\ cb.pc = "append"
  /\ board # <<>>
  /\ stream[cb.sess] = "active"
  /\ is_running[cb.sess]

\* C7: no error leaves a callback: no stream is ever aborted by an exception
\* raised in its callback
C7_NoErrorEscapesCallback ==
  \A s \in Sessions : stream[s] # "aborted"

\* C8: update_effects with an unknown effect kind fails with an error and
\* leaves the current chain as it was before the call and the lock released
C8_UnknownKindLeavesChain ==
  [][(ctlPc = "ue_build" /\ ctlResult' = "KeyError") =>
       /\ board' = entryBoard
       /\ installed' = installed
       /\ lock' = "free"
       /\ ctlPc' = "idle"]_vars

\* C8 witness: update_effects has failed on an unknown kind while a chain was
\* installed
C8_Witness ==
  /\ ctlResult = "KeyError"
  /\ ctlPc = "idle"
  /\ board # <<>>

\* C9: once stop() of a playback session has returned, the session is not
\* running, its stream invokes no callback and none of its callbacks is
\* executing, so it appends no further block
C9_StoppedPlaybackAppendsNothing ==
  phase["playback"] = "stopped" =>
    /\ ~is_running["playback"]
    /\ stream["playback"] # "active"
    /\ ~InFlight("playback")

\* C9 witness: a playback session was stopped after it had appended a block
\* and before the cursor reached the end of the buffer
C9_Witness ==
  /\ phase["playback"] = "stopped"
  /\ recorded_chunks # <<>>
  /\ current_frame > 0
  /\ current_frame < audio_data.len

\* C10: stop() on a session whose stop() has already returned changes neither
\* the running flags, nor the streams, nor the engine's active flag
C10_StopIdempotent ==
  [][(ctlPc \in {"sp_flag", "sp_stream", "sp_inactive"} /\ phase[ctlSess] = "stopped") =>
       /\ is_running' = is_running
       /\ stream' = stream
       /\ is_active' = is_active]_vars

\* C11: the buffer holds only blocks appended by the most recently started
\* session, and until the first callback of that session is invoked the buffer
\* is empty and, for a playback session, the cursor is 0
C11_BufferOfLatestSession ==
  /\ Len(recorded_by) = Len(recorded_chunks)
  /\ \A i \in 1..Len(recorded_by) : recorded_by[i] = owner
  /\ fresh => /\ recorded_chunks = <<>>
              /\ owner = "playback" => current_frame = 0

\* C11 witness: a playback session has been started after a live session that
\* produced a block, and its first callback, seeing an empty buffer, has
\* appended the only block
C11_Witness ==
  /\ owner = "playback"
  /\ phase["live"] = "stopped"
  /\ ~fresh
  /\ Len(recorded_chunks) = 1
  /\ cb.pc = "write"
  /\ cb.sess = "playback"

\* q is p with at most one block appended
ExtendsByOne(p, q) ==
  /\ Len(q) \in {Len(p), Len(p) + 1}
  /\ \A i \in 1..Len(p) : q[i] = p[i]

\* C12: in a live session, an invocation that finds the session running
\* appends exactly one block to the end of the buffer and that block is the
\* block written to the output; an invocation that finds it not running
\* writes zeros and appends nothing; the blocks already in the buffer are
\* never changed, reordered or removed during the session
C12_LiveAppendsWhatItPlays ==
  [][/\ (cb.pc = "append" /\ cb.sess = "live" /\ cb'.pc = "write") =>
          recorded_chunks' = Append(recorded_chunks, cb.blk)
     /\ (cb.pc = "write" /\ cb.sess = "live" /\ cb'.pc = "idle") =>
          outdata' = recorded_chunks[Len(recorded_chunks)]
     /\ (cb.pc = "idle" /\ cb'.pc = "idle" /\ outdata' # outdata) =>
          (outdata'.peak = 0 /\ recorded_chunks' = recorded_chunks)
     /\ (owner = "live" /\ ctlPc \notin {"ls_flags", "ps_flags"}) =>
          ExtendsByOne(recorded_chunks, recorded_chunks')]_vars

\* C13: after every callback of a playback session the frames in the buffer
\* add up to the cursor, so to the length of the loaded buffer once the
\* cursor has reached it
C13_AccumulatedFramesEqualCursor ==
  (owner = "playback" /\ ~InFlight("playback")) =>
     TotalFrames(recorded_chunks) = current_frame

\* stop() has been called on the playback session
StopRequested ==
  \/ phase["playback"] = "stopped"
  \/ ctlSess = "playback" /\ ctlPc \in {"sp_flag", "sp_stream", "sp_inactive"}

\* C14: a running playback session with a started stream, unless it is
\* stopped, eventually completes (the cursor reaches the length of the buffer
\* and is_running is false), and is_running turns false only by stop() or with
\* the cursor at the length of the buffer
C14_PlaybackCompletes ==
  /\ (is_running["playback"] /\ stream["playback"] = "active")
        ~> (StopRequested \/ (~is_running["playback"] /\ current_frame = audio_data.len))
  /\ [][(is_running["playback"] /\ ~is_running'["playback"]) =>
          (ctlPc = "sp_flag" \/ current_frame' = audio_data.len)]_vars

\* the frames of the first k blocks of the buffer, added up
Offset(chunks, k) == TotalFrames(SubSeq(chunks, 1, k))

\* C15: a successful save_recording writes, at the engine's sample rate, as
\* many frames as the blocks of the buffer hold together, and frame j of block
\* i is found right after the frames of blocks 1..i-1
C15_SavedIsConcatenation ==
  [][(ctlPc = "save" /\ ctlPc' # "save" /\ ctlResult' = "True") =>
       /\ saved'.status = "written"
       /\ saved'.samplerate = Samplerate
       /\ Len(saved'.audio) = TotalFrames(recorded_chunks)
       /\ \A i \in 1..Len(recorded_chunks) : \A j \in 1..recorded_chunks[i].frames :
            saved'.audio[Offset(recorded_chunks, i - 1) + j] =
              [peak |-> recorded_chunks[i].peak, limited |-> recorded_chunks[i].limited]]_vars

\* C15 witness: two blocks with different content were saved, each of one
\* frame
C15_Witness ==
  /\ saved.status = "written"
  /\ ctlResult = "True"
  /\ Len(recorded_chunks) = 2
  /\ Len(saved.audio) = 2
  /\ saved.audio[1] # saved.audio[2]

\* C16: save_recording on an empty buffer returns False and writes no file
C16_EmptySaveFails ==
  [][(ctlPc = "save" /\ ctlPc' # "save" /\ recorded_chunks = <<>>) =>
       (ctlResult' = "False" /\ saved'.status = "not_written")]_vars

\* C16 witness: save_recording has returned False on an empty buffer
C16_Witness ==
  /\ saved.status = "not_written"
  /\ ctlResult = "False"
  /\ recorded_chunks = <<>>
  /\ cb.pc = "idle"
  /\ \A s \in Sessions : stream[s] # "active"

\* C17: a save_recording that fails leaves the buffer as it was, so that the
\* next call finds the same blocks to write
C17_FailedSaveKeepsBuffer ==
  [][(ctlPc = "save" /\ ctlPc' # "save" /\ ctlResult' = "False") =>
       (recorded_chunks' = recorded_chunks /\ saved'.status = "not_written")]_vars

\* C17 witness: after a recording of two blocks, save_recording has failed in
\* writing and the two blocks are in the buffer
C17_Witness ==
  /\ saved.status = "not_written"
  /\ ctlResult = "False"
  /\ Len(recorded_chunks) = 2
  /\ cb.pc = "idle"
  /\ \A s \in Sessions : stream[s] \in {"None", "closed"}

\* C18: when load_file fails, start() of the playback session returns False
\* without going on to the flags or the stream: the session is not running,
\* it has no stream, and the engine's active flag and the buffer are as before
C18_LoadFailureStartsNothing ==
  [][(ctlPc = "ps_load" /\ ctlResult' = "False") =>
       /\ ctlPc' \notin {"ps_flags", "ps_open"}
       /\ ~is_running'["playback"]
       /\ stream'["playback"] = "None"
       /\ is_active' = is_active
       /\ recorded_chunks' = recorded_chunks]_vars

\* C18 witness: start() of a playback session has returned False on a file
\* that did not load, with an earlier recording in the buffer
C18_Witness ==
  /\ ctlResult = "False"
  /\ saved.status = "none"
  /\ ctlPc = "idle"
  /\ phase["playback"] = "idle"
  /\ stream["playback"] = "None"
  /\ recorded_chunks # <<>>

\* C19: when the stream cannot be opened or started, start() fails and leaves
\* the engine inactive and the session not running
C19_StreamFailureMarksInactive ==
  [][(ctlPc \in {"ls_open", "ps_open"} /\ ctlResult' = "PortAudioError") =>
       (~is_active' /\ ~is_running'[ctlSess])]_vars

\* C20: every plugin that process_chunk calls, the stages of the chain and the
\* safety limiter, starts a block with the memory it held after the block
\* before
C20_StageMemoryCarriesOver ==
  [][(cb.pc = "process" /\ cb'.pc = "append") =>
       /\ cb'.board_in # "none" => cb'.board_in = board_mem
       /\ cb'.limiter_in # "none" => cb'.limiter_in = limiter_mem]_vars

\* a stage of the chain before the step is a stage of the chain after it
StageRemains ==
  \E i \in 1..Len(board), j \in 1..Len(board') : board'[j].name = board[i].name

\* C21: no step discards the memory the stages of the chain have accumulated
\* while a stage of the chain stays in the chain, in particular not the
\* installation of an edited chain
C21_EditKeepsStageMemory ==
  [][(board_mem = "carried" /\ StageRemains) => board_mem' = "carried"]_vars

InRange(stage) ==
  /\ EFFECTS[stage.name].min <= stage.parameters
  /\ stage.parameters <= EFFECTS[stage.name].max

\* C23: every stage of the installed chain has its parameter within the
\* range declared for its kind, whatever values update_effects was given
C23_InstalledParametersInRange ==
  \A i \in 1..Len(board) : InRange(board[i])

\* the playback callback has set is_running to False at the end of the file
\* and stop_audio has not run yet
CompletedNaturally ==
  /\ playback_session
  /\ app_is_active
  /\ phase["playback"] = "started"
  /\ stream["playback"] = "active"
  /\ ~is_running["playback"]
  /\ ctlPc \notin {"sp_stream", "sp_inactive"}

\* C24: after playback has completed naturally the control thread eventually
\* has performed the stop: the stream is closed, the engine is inactive and
\* the application is not active
\* the application is not active, and no step of a callback changes what the
\* control thread owns
C24_CompletionLeadsToStop ==
  /\ CompletedNaturally
       ~> (~app_is_active /\ stream["playback"] = "closed" /\ ~is_active)
  /\ [][(cb' # cb \/ outdata' # outdata)
          => UNCHANGED <<ctlVars, appVars, is_active>>]_vars

C24_Witness ==
  /\ audio_data # NoData
  /\ current_frame = audio_data.len
  /\ recorded_chunks # <<>>
  /\ ~is_running["playback"]
  /\ stream["playback"] = "closed"
  /\ ~is_active
  /\ ~app_is_active
  /\ ~playback_session
  /\ ctlPc = "idle"

\* stop() has cleared is_running while a callback of the session is executing
StoppedInFlight == cb.pc # "idle" /\ ~is_running[cb.sess]

\* C25: a callback that is executing when stop() is called ends with its
\* block appended to the recording and written to the output
C25_InFlightBlockCompletes ==
  [][(StoppedInFlight /\ cb.pc = "write" /\ cb'.pc = "idle")
       => /\ recorded_chunks # <<>>
          /\ recorded_chunks[Len(recorded_chunks)].peak = cb.blk.peak
          /\ outdata' = [cb.blk EXCEPT !.frames = cb.frames]
          /\ stream'[cb.sess] = stream[cb.sess]]_vars

\* C26: when stop() marks the engine inactive, the session is not running,
\* its stream is stopped and closed and no callback of it is executing, and
\* from then on no callback of that session starts
C26_InactiveAfterStreamClosed ==
  /\ [][ctlPc = "sp_inactive"
         => /\ ~is_running[ctlSess]
            /\ stream[ctlSess] \in {"None", "closed"}
            /\ ~InFlight(ctlSess)]_vars
  /\ [][\A s \in Sessions :
          (phase[s] = "stopped" /\ phase'[s] = "stopped") => ~InFlight(s)']_vars

C26_Witness ==
  /\ ctlPc = "sp_inactive"
  /\ is_active
  /\ stream[ctlSess] = "closed"
  /\ recorded_chunks # <<>>

\* C27: the block the playback callback hands to the engine has the frame
\* count the driver requested, and so has the block a playback callback has
\* written to the output, the silent block included
C27_BlocksHaveRequestedLength ==
  /\ (InFlight("playback") /\ cb.pc \in {"lock", "process"})
       => cb.blk.frames = requested
  /\ (owner = "playback" /\ ~fresh /\ cb.pc = "idle" /\ outdata # NoBlock)
       => outdata.frames = requested

\* the last window of a file is shorter than the request and is handed to
\* the engine padded
C27_Witness ==
  /\ InFlight("playback")
  /\ cb.pc = "process"
  /\ cb.end_frame - current_frame < cb.frames
  /\ cb.blk.frames = requested

\* C28: a block process_chunk returns without a failure has gone through the
\* stages of the current chain in chain order and then through the safety
\* limiter, and the chain update_effects installs has one stage for each
\* entry of the list it was given, of that entry's kind and parameters
C28_StagesInOrderLimiterLast ==
  /\ [][(cb.pc = "process" /\ cb'.pc = "append" /\ ~cb'.caught)
         => cb'.path = board \o <<SafetyStage>>]_vars
  /\ [][(ctlPc = "ue_build" /\ ue_i > Len(effect_configs) /\ ctlPc' # "ue_build")
         => /\ Len(board') = Len(effect_configs)
            /\ \A i \in 1..Len(effect_configs) :
                 /\ board'[i].name = effect_configs[i].name
                 /\ board'[i].parameters = effect_configs[i].parameters]_vars

\* the chain the cards of the UI describe
UIChain ==
  [i \in 1..Len(effect_chain) |->
     [name |-> effect_chain[i].name, parameters |-> effect_chain[i].parameters]]

\* C29: whenever no rebuild of the chain is in progress, the engine's chain
\* is the chain of the UI: as many stages, of the same kinds in the same
\* order, with the same parameter values
C29_EngineChainIsUIChain ==
  ctlPc \notin {"ue_lock", "ue_build"} => board = UIChain

\* two cards, the second one edited and then moved up
C29_Witness ==
  /\ ctlPc = "idle"
  /\ Len(effect_chain) = 2
  /\ effect_chain[1].parameters = 6
  /\ effect_chain[2].parameters = 0
  /\ board = UIChain
  /\ stream["live"] = "active"

\* the stages of the user chain among the stages a block has gone through
UserStages(path) ==
  IF path = <<>> THEN <<>> ELSE SubSeq(path, 1, Len(path) - 1)

\* C30: a block processed without a failure has gone through the chain given
\* to the last update_effects that had returned when process_chunk took the
\* lock, never through an earlier chain
C30_EditVisibleToNextBlock ==
  [][(cb.pc = "process" /\ cb'.pc = "append" /\ ~cb'.caught)
       => UserStages(cb'.path) = installed]_vars

\* the second block of a playback session goes through a chain installed
\* after the first block
C30_Witness ==
  /\ cb.pc = "append"
  /\ cb.sess = "playback"
  /\ Len(recorded_chunks) = 1
  /\ recorded_by[1] = "playback"
  /\ cb.board_in = "initial"
  /\ Len(cb.path) = 3
  /\ UserStages(cb.path) = installed

\* a step of a callback: it changes the callback's position, the output
\* block or the recorded request
CallbackChange == cb' # cb \/ outdata' # outdata \/ requested' # requested

\* C31: a step of a callback leaves alone the chain, processor.is_active,
\* the lifecycle position of both sessions, the loaded file, the live
\* session's running flag and everything of the control thread; it neither
\* opens nor closes a stream (a stream changes only by the driver aborting it
\* after an exception), and it changes the playback session's running flag
\* only to False and only at the end of the file
C31_CallbackLeavesLifecycle ==
  [][CallbackChange
       => /\ UNCHANGED <<board, installed, is_active, phase, audio_data, ctlVars,
                         ueVars, saved, appVars>>
          /\ is_running'["live"] = is_running["live"]
          /\ \A s \in Sessions : stream'[s] \in {stream[s], "aborted"}
          /\ is_running'["playback"] # is_running["playback"]
               => (~is_running'["playback"] /\ current_frame' >= audio_data.len)]_vars

\* the playback callback has set is_running to False at the end of the file
C31_Witness ==
  /\ phase["playback"] = "started"
  /\ stream["playback"] = "active"
  /\ ~is_running["playback"]
  /\ current_frame = audio_data.len
  /\ recorded_chunks # <<>>
  /\ is_active
  /\ ctlPc = "idle"

\* C32: a loaded playback buffer has exactly 2 channels
C32_LoadedBufferIsStereo ==
  audio_data # NoData => audio_data.channels = 2

\* C33: the lock is held only inside the with block of update_effects or of
\* process_chunk, so no exit leaves it held, and every call of
\* update_effects, of process_chunk and of stop() returns
C33_LockReleasedAndCallsReturn ==
  /\ [](lock = "ctl" => ctlPc = "ue_build")
  /\ [](lock = "rt" => cb.pc = "process")
  /\ (ctlPc = "ue_lock") ~> (ctlPc = "idle")
  /\ (cb.pc = "lock") ~> (cb.pc = "append")
  /\ (ctlPc = "sp_flag") ~> (ctlPc = "idle")

\* update_effects waits for the lock that a callback holds
C33_Witness ==
  /\ lock = "rt"
  /\ ctlPc = "ue_lock"
  /\ cb.pc = "process"
  /\ stream["live"] = "active"

\* C34: in the application at most one session is running, at most one
\* stream is open, and live_session and playback_session are not both set
C34_AtMostOneSession ==
  /\ ~(is_running["live"] /\ is_running["playback"])
  /\ ~(stream["live"] = "active" /\ stream["playback"] = "active")
  /\ ~(live_session /\ playback_session)

\* C35: whenever the control thread is idle between two events, the
\* application is active exactly when the engine is marked active
C35_ActiveFlagsAgree ==
  ctlPc = "idle" => (app_is_active <=> is_active)

\* C36: the playback cursor lies between 0 and the length of the loaded
\* data; a step that changes it is either a callback that advances it by the
\* smaller of the requested frames and the frames left, or start() setting
\* it to 0, or the application making a new session object
C36_CursorInBoundsAndForward ==
  /\ [](audio_data # NoData => (0 <= current_frame /\ current_frame <= audio_data.len))
  /\ [](audio_data = NoData => current_frame = 0)
  /\ [][current_frame' # current_frame
          => \/ /\ cb.pc = "write"
                /\ cb.sess = "playback"
                /\ current_frame'
                     = current_frame + Min(cb.frames, audio_data.len - current_frame)
             \/ /\ ctlPc = "ps_flags"
                /\ current_frame' = 0
             \/ /\ playback_session' /\ ctlPc = "idle" /\ ctlPc' = "ps_load"
                /\ current_frame' = 0]_vars

\* the cursor has reached the end of the longest file, one frame at a time
C36_Witness ==
  /\ audio_data # NoData
  /\ current_frame = audio_data.len
  /\ audio_data.len = MaxData
  /\ Len(recorded_chunks) = MaxData
  /\ stream["playback"] = "active"

\* q and r hold the same cards, each as often
SameCards(q, r) ==
  /\ Len(q) = Len(r)
  /\ \A c \in {q[k] : k \in 1..Len(q)} \cup {r[k] : k \in 1..Len(r)} :
       Cardinality({k \in 1..Len(q) : q[k] = c})
         = Cardinality({k \in 1..Len(r) : r[k] = c})

\* r is q with the cards at positions i and i + 1 exchanged
AdjacentExchange(q, r, i) ==
  /\ Len(r) = Len(q)
  /\ r[i] = q[i + 1]
  /\ r[i + 1] = q[i]
  /\ \A k \in 1..Len(q) : k \notin {i, i + 1} => r[k] = q[k]

====
